---- MODULE Spec2Model ----
(***************************************************************************)
(* The flashcard study session of src/src/App.tsx as a state machine.      *)
(*                                                                         *)
(* The component's useState cells are the variables.  Every event handler  *)
(* (a click, a keydown, the completion of a CSV parse, the completion of   *)
(* a remote list request) is one action: React runs the handler to         *)
(* completion, applies all the state updates it queued, and renders once.  *)
(*                                                                         *)
(* A handler is a closure of the render that created it.  Click handlers   *)
(* are re-created by every render and see the current state.  Two          *)
(* handlers are memoized and see older values:                             *)
(*   - handleFiles is useCallback(..., []): it and the resetSession it     *)
(*     calls belong to the first render, where shuffle = true;             *)
(*   - onKey is useCallback(..., [started, idx, queue]): it and the        *)
(*     next/prev/markKnown/markUnknown it calls belong to the last render  *)
(*     in which started, idx or queue changed.  The values of known,       *)
(*     unknown and autoRepeatUnknown it sees are kept in onKeyEnv.         *)
(*                                                                         *)
(* Texts are sequences of one-character strings.  Queue values and idx     *)
(* are 0-based as in the source; TLA+ sequences are 1-based, so the        *)
(* element at JavaScript position p is queue[p + 1].                       *)
(***************************************************************************)
EXTENDS Integers, Sequences, FiniteSets, TLC

\* Largest number of records in an imported or stored deck.
MaxN == 2
\* Largest number of entries of known and unknown and of re-inserted queue
\* slots, taken together, in one session.
MaxMarks == 2
\* Largest number of CSV parses in flight at once.
MaxPending == 1
\* Number of records of the file of the end-to-end scenario, and the entries
\* and re-inserted slots one session on it may collect.
ScenarioN == 3
ScenarioMarks == 3
\* Longest queue of the sessions the progress bar is checked on.
MaxQueue == 200
\* Largest number of insert requests, and of delete requests, in flight.
MaxRequests == 1
\* Largest number of rows the study_sets table ever holds, counting the
\* deleted ones.
MaxStored == 2
\* Largest number of select requests in flight.
MaxListing == 2
\* Largest number of CSV parses in flight at once where imports overlap.
RacePending == 2

\* Decks of SpacedN records and more, and the classification entries and
\* re-inserted slots explored on them.
SpacedN == 12

SpacedMarks == 4

VARIABLES
    rawRows,            \* QA[]: the deck
    queue,              \* number[]: indices into rawRows
    idx,                \* position in queue
    flipped,
    known,              \* number[]
    unknown,            \* number[]
    started,
    shuffle,
    reverse,
    autoRepeatUnknown,
    dark,               \* the theme
    savedSets,          \* StudySet[] last listed
    currentSetTitle,
    onKeyEnv,           \* what the registered onKey closure sees
    parsing,            \* Papa.parse calls in flight
    remote,             \* the study_sets table, newest first
    listing,            \* loadSavedSets requests in flight
    saving,             \* insert requests in flight
    deleting,           \* delete requests in flight
    issued              \* rows the table has given an id to

vars == <<rawRows, queue, idx, flipped, known, unknown, started, shuffle,
          reverse, autoRepeatUnknown, dark, savedSets, currentSetTitle,
          onKeyEnv, parsing, remote, listing, saving, deleting, issued>>

----------------------------------------------------------------------------
\* Texts

IsSpace(c) == c \in {" ", "\n"}

IsOption(c) == c \in {"A", "B", "C", "D", "E"}

RECURSIVE trimStart(_)
trimStart(s) ==
    IF s # <<>> /\ IsSpace(Head(s)) THEN trimStart(Tail(s)) ELSE s

RECURSIVE trimEnd(_)
trimEnd(s) ==
    IF s # <<>> /\ IsSpace(s[Len(s)])
    THEN trimEnd(SubSeq(s, 1, Len(s) - 1))
    ELSE s

\* String.prototype.trim
trim(s) == trimEnd(trimStart(s))

\* text.replace(/([A-E]\.)\s*/g, '\n$1 '): every option marker followed by
\* any run of white space becomes line break, marker, one blank.
RECURSIVE formatText(_)
formatText(text) ==
    IF text = <<>> THEN <<>>
    ELSE IF Len(text) >= 2 /\ IsOption(text[1]) /\ text[2] = "."
    THEN <<"\n", text[1], ".", " ">>
            \o formatText(trimStart(SubSeq(text, 3, Len(text))))
    ELSE <<Head(text)>> \o formatText(Tail(text))

----------------------------------------------------------------------------
\* CSV import: what Papa.parse delivers and normalizeRecords

\* A parsed record: "named" is an object with question/answer keys, "keys"
\* an object with other keys (its first two values are q and a), "array" a
\* row of a parse without header.
Rec(tag, q, a) == [tag |-> tag, q |-> q, a |-> a]

normalizeOne(r) == [q |-> formatText(trim(r.q)), a |-> formatText(trim(r.a))]

keepRecord(r) == r.tag = "named" \/ trim(r.q) # <<>>

normalizeRecords(records) ==
    LET kept == SelectSeq(records, keepRecord)
    IN  [i \in 1..Len(kept) |-> normalizeOne(kept[i])]

\* records.length > 0 && every value of every record is blank
allEmpty(records) ==
    /\ Len(records) > 0
    /\ \A i \in 1..Len(records) : trim(records[i].q) = <<>> /\ trim(records[i].a) = <<>>

\* The files the user picks.  "named": a header row question,answer and
\* MaxN records.  "blank": a first line whose first field is empty and a
\* line of empty fields; the parse with header turns it into one record
\* with blank values, the parse without header into two rows.  "scenario":
\* a header row question,answer and ScenarioN records.
Files == {"named", "blank"}

HeaderParse(f) ==
    IF f = "named"
    THEN [i \in 1..MaxN |-> Rec("named", <<"x">>, <<"A", ".", "y">>)]
    ELSE IF f = "scenario"
    THEN [i \in 1..ScenarioN |-> Rec("named", <<"x">>, <<"y">>)]
    ELSE <<Rec("keys", <<>>, <<" ">>)>>

PlainParse(f) == <<Rec("array", <<>>, <<"y">>), Rec("array", <<" ">>, <<>>)>>

----------------------------------------------------------------------------
\* Session engine

Identity(n) == [i \in 1..n |-> i - 1]

\* A swap that loses a[i]: a[i] = a[j] alone.
SwapOverwrite(a, i, j) == [a EXCEPT ![i] = a[j]]

\* [a[i], a[j]] = [a[j], a[i]]
Swap(a, i, j) == [a EXCEPT ![i] = a[j], ![j] = a[i]]

\* Fisher-Yates from the last position down to the second (0-based i from
\* a.length - 1 down to 1), j = floor(random * (i + 1)) any of 0..i.  The
\* set of arrays the loop can return when it is about to run step i.
RECURSIVE shuffleFrom(_, _)
shuffleFrom(a, i) ==
    IF i < 2 THEN {a}
    ELSE UNION {shuffleFrom(Swap(a, i, j), i - 1) : j \in 1..i}

shuffleArray(arr) == shuffleFrom(arr, Len(arr))

\* The queues resetSession(n) can build in a render where shuffle = sh.
resetQueues(n, sh) == IF sh THEN shuffleArray(Identity(n)) ELSE {Identity(n)}

\* queue[idx] ?? -1
currentIndex == IF idx < Len(queue) THEN queue[idx + 1] ELSE -1

\* A card view that never exchanges the sides.
currentCardAsStored ==
    IF currentIndex < 0 THEN <<>> ELSE rawRows[currentIndex + 1]

\* The memo of currentIndex, rawRows and reverse: null (here <<>>) without
\* a current card, else the record, its sides exchanged when reverse.
currentCard ==
    IF currentIndex < 0 THEN <<>>
    ELSE LET base == rawRows[currentIndex + 1]
         IN  IF reverse THEN [q |-> base.a, a |-> base.q] ELSE base

\* The pairs <<idx, total>> with total <= MaxQueue + 2 at which the double
\* idx / total * 100 is the one just below k + 0.5 although the quotient of
\* the integers is k + 0.5 (0.575 * 100 = 57.49999999999999).
HalfLost ==
    {<<23, 40>>, <<46, 80>>, <<69, 120>>, <<92, 160>>,
     <<29, 200>>, <<57, 200>>, <<113, 200>>, <<115, 200>>}

\* total ? Math.round((idx / total) * 100) : 0.  Math.round takes a double
\* to the nearest integer, a half upwards: floor((200 idx + total) / (2
\* total)) of the exact quotient, one less where the double lost the half.
progressOf(i, total) ==
    IF total = 0 THEN 0
    ELSE ((200 * i + total) \div (2 * total))
            - (IF <<i, total>> \in HalfLost THEN 1 ELSE 0)

progress == progressOf(idx, Len(queue))

Includes(s, x) == \E k \in 1..Len(s) : s[k] = x

Filter(s, x) == LET keep(y) == y # x IN SelectSeq(s, keep)

Max(a, b) == IF a >= b THEN a ELSE b

Min(a, b) == IF a <= b THEN a ELSE b

\* Math.max(10, Math.floor(length * 0.3)); floor(n * 0.3) in IEEE doubles
\* equals floor(3n / 10) for every n below two million.
minGap(length) == Max(10, (3 * length) \div 10)

\* A position counted from the head of the queue, the cursor forgotten.
insertAtIgnoresCursor(copy, i, j) == Min(Len(copy), minGap(Len(copy)) + j)

\* Math.min(copy.length, idx + minGap + Math.floor(Math.random() * 5))
insertAt(copy, i, j) == Min(Len(copy), i + minGap(Len(copy)) + j)

\* copy[at] = x on the last slot at most: an assignment where the source
\* inserts.
SpliceOverwrites(copy, at, x) ==
    IF copy = <<>> THEN <<x>>
    ELSE [copy EXCEPT ![Min(at + 1, Len(copy))] = x]

\* copy.splice(at, 0, x)
Splice(copy, at, x) ==
    SubSeq(copy, 1, at) \o <<x>> \o SubSeq(copy, at + 1, Len(copy))

Jitter == 0..4

----------------------------------------------------------------------------
\* Closures

\* What a handler created by the current render sees.
RenderEnv ==
    [known |-> known, unknown |-> unknown, autoRepeatUnknown |-> autoRepeatUnknown]

Env(src) == IF src = "key" THEN onKeyEnv ELSE RenderEnv

Sources == {"click", "key"}

\* useCallback(onKey, [started, idx, queue]) and the effect that registers
\* it: onKey is replaced by the new render's closure when started or idx
\* changed or setQueue stored a new array.
Render(queueSet) ==
    onKeyEnv' =
        IF queueSet \/ started' # started \/ idx' # idx
        THEN [known |-> known', unknown |-> unknown',
              autoRepeatUnknown |-> autoRepeatUnknown']
        ELSE onKeyEnv

\* A reset that forgets setKnown([]).
resetSessionKeepsKnown(n, sh) ==
    /\ queue' \in resetQueues(n, sh)
    /\ idx' = 0
    /\ flipped' = FALSE
    /\ known' = known
    /\ unknown' = <<>>
    /\ started' = FALSE

\* resetSession(n) of a render where shuffle = sh.
resetSession(n, sh) ==
    /\ queue' \in resetQueues(n, sh)
    /\ idx' = 0
    /\ flipped' = FALSE
    /\ known' = <<>>
    /\ unknown' = <<>>
    /\ started' = FALSE

\* The study area (card, buttons, in-session switches) is rendered.
StudyArea == started /\ Len(rawRows) > 0

----------------------------------------------------------------------------
\* The persistence gateway as far as the session needs it

StoredSet ==
    [id |-> 1, title |-> "t",
     questions |-> [i \in 1..(MaxN - 1) |->
                       [question |-> <<"x">>, answer |-> <<"\n", "A", ".", " ", "y">>]]]

----------------------------------------------------------------------------
\* Init: the first render, with the mount effect's loadSavedSets in flight

\* The render that created the memoized handleFiles: useState(true).
handleFilesEnv == [shuffle |-> TRUE]

Init ==
    /\ rawRows = <<>>
    /\ queue = <<>>
    /\ idx = 0
    /\ flipped = FALSE
    /\ known = <<>>
    /\ unknown = <<>>
    /\ started = FALSE
    /\ shuffle = TRUE
    /\ reverse = FALSE
    /\ autoRepeatUnknown = TRUE
    /\ dark = TRUE
    /\ savedSets = <<>>
    /\ currentSetTitle = ""
    /\ onKeyEnv = [known |-> <<>>, unknown |-> <<>>, autoRepeatUnknown |-> TRUE]
    /\ parsing = {}
    /\ remote = <<StoredSet>>
    /\ listing = 1
    /\ saving = {}
    /\ deleting = {}
    /\ issued = 1

----------------------------------------------------------------------------
\* Import

config == <<shuffle, reverse, autoRepeatUnknown, dark>>

session == <<queue, idx, flipped, known, unknown, started>>

requests == <<saving, deleting, issued>>

gateway == <<savedSets, currentSetTitle, remote, listing, requests>>

\* handleFiles(files): Papa.parse(file, {header: true, ...}) is issued.
handleFiles(f) ==
    /\ Cardinality(parsing) < MaxPending
    /\ parsing' = parsing \cup {[file |-> f, header |-> TRUE]}
    /\ UNCHANGED <<rawRows, session, config, gateway, onKeyEnv>>

\* handleFiles(files) where the user picks a file while others are parsed.
handleFilesPending(f) ==
    /\ Cardinality(parsing) < RacePending
    /\ parsing' = parsing \cup {[file |-> f, header |-> TRUE]}
    /\ UNCHANGED <<rawRows, session, config, gateway, onKeyEnv>>

\* An import that resets for the length of the deck on screen, not the new one.
importRecordsStale(records) ==
    /\ rawRows' = normalizeRecords(records)
    /\ resetSession(Len(rawRows), handleFilesEnv.shuffle)

\* setRawRows(qas); resetSession(qas.length) inside a complete callback:
\* resetSession is the first render's.
importRecords(records) ==
    LET qas == normalizeRecords(records) IN
    /\ rawRows' = qas
    /\ resetSession(Len(qas), handleFilesEnv.shuffle)

\* complete: (res) => ... of either parse.
parseComplete(p) ==
    /\ p \in parsing
    /\ UNCHANGED <<config, gateway>>
    /\ IF p.header /\ allEmpty(HeaderParse(p.file))
       THEN /\ parsing' = (parsing \ {p}) \cup {[file |-> p.file, header |-> FALSE]}
            /\ UNCHANGED <<rawRows, session, onKeyEnv>>
       ELSE /\ parsing' = parsing \ {p}
            /\ importRecords(IF p.header THEN HeaderParse(p.file) ELSE PlainParse(p.file))
            /\ Render(TRUE)

\* An error callback that clears the deck before it alerts.
parseErrorClears(p) ==
    /\ p \in parsing
    /\ p.header
    /\ parsing' = parsing \ {p}
    /\ rawRows' = <<>>
    /\ resetSession(0, handleFilesEnv.shuffle)
    /\ UNCHANGED <<config, gateway>>
    /\ Render(TRUE)

\* error: () => alert(...) of the parse with header.
parseError(p) ==
    /\ p \in parsing
    /\ p.header
    /\ parsing' = parsing \ {p}
    /\ UNCHANGED <<rawRows, session, config, gateway, onKeyEnv>>

----------------------------------------------------------------------------
\* Saved sets

\* loadSavedSets once the select has answered: setSavedSets(data) unless
\* it failed.
loadSavedSets(ok) ==
    /\ listing > 0
    /\ listing' = listing - 1
    /\ savedSets' = IF ok THEN remote ELSE savedSets
    /\ UNCHANGED <<rawRows, session, config, currentSetTitle, remote, requests,
                   onKeyEnv, parsing>>

loadedRow(q) == [q |-> formatText(q.question), a |-> formatText(q.answer)]

loadStudySet(studySet) ==
    /\ rawRows' = [i \in 1..Len(studySet.questions) |-> loadedRow(studySet.questions[i])]
    /\ resetSession(Len(studySet.questions), shuffle)
    /\ currentSetTitle' = studySet.title
    /\ UNCHANGED <<config, savedSets, remote, listing, requests, parsing>>
    /\ Render(TRUE)

\* The title field: onChange={(e) => setCurrentSetTitle(e.target.value)}.
Titles == {"", " ", "u"}

\* The characters of a title.
TitleText(t) ==
    IF t = "" THEN <<>> ELSE IF t = " " THEN <<" ">> ELSE <<t>>

setTitle(t) ==
    /\ Len(rawRows) > 0
    /\ currentSetTitle' = t
    /\ UNCHANGED <<rawRows, session, config, savedSets, remote, listing, requests,
                   onKeyEnv, parsing>>

\* {title: currentSetTitle, questions: rawRows.map(row => ({question: row.q,
\* answer: row.a}))}
studySetOf(title, rows) ==
    [title |-> title,
     questions |-> [i \in 1..Len(rows) |-> [question |-> rows[i].q, answer |-> rows[i].a]]]

\* A saveStudySet that tests the title without trimming it.
saveRefusedUntrimmed == currentSetTitle = "" \/ Len(rawRows) = 0

\* !currentSetTitle.trim() || rawRows.length === 0
saveRefused == trim(TitleText(currentSetTitle)) = <<>> \/ Len(rawRows) = 0

\* saveStudySet up to its await: the insert is sent unless the call is
\* refused.  The button is rendered with a deck only.
saveStudySet ==
    /\ Len(rawRows) > 0
    /\ IF saveRefused
       THEN UNCHANGED vars
       ELSE /\ Cardinality(saving) < MaxRequests
            /\ saving' = saving \cup {studySetOf(currentSetTitle, rawRows)}
            /\ UNCHANGED <<rawRows, session, config, savedSets, currentSetTitle,
                           remote, listing, deleting, issued, onKeyEnv, parsing>>

\* A saveStudySet that calls loadSavedSets whatever the answer.
saveDoneAlwaysLists(s, ok) ==
    /\ s \in saving
    /\ listing < MaxListing
    /\ ok => issued < MaxStored
    /\ saving' = saving \ {s}
    /\ listing' = listing + 1
    /\ IF ok
       THEN /\ remote' = <<[id |-> issued + 1, title |-> s.title,
                            questions |-> s.questions]>> \o remote
            /\ issued' = issued + 1
       ELSE UNCHANGED <<remote, issued>>
    /\ UNCHANGED <<rawRows, session, config, savedSets, currentSetTitle, deleting,
                   onKeyEnv, parsing>>

\* saveStudySet after its await: the insert has answered.  With an error
\* it alerts; without, the row is in the table and loadSavedSets is called.
saveDone(s, ok) ==
    /\ s \in saving
    /\ saving' = saving \ {s}
    /\ IF ok
       THEN /\ issued < MaxStored
            /\ listing < MaxListing
            /\ remote' = <<[id |-> issued + 1, title |-> s.title,
                            questions |-> s.questions]>> \o remote
            /\ issued' = issued + 1
            /\ listing' = listing + 1
       ELSE UNCHANGED <<remote, issued, listing>>
    /\ UNCHANGED <<rawRows, session, config, savedSets, currentSetTitle, deleting,
                   onKeyEnv, parsing>>

\* A deleteStudySet without its first line.
deleteStudySetUnasked(id, confirmed) ==
    /\ Cardinality(deleting) < MaxRequests
    /\ deleting' = deleting \cup {id}
    /\ UNCHANGED <<rawRows, session, config, savedSets, currentSetTitle, remote,
                   listing, saving, issued, onKeyEnv, parsing>>

\* deleteStudySet(id) up to its await: if (!confirm(...)) return; then the
\* delete is sent.
deleteStudySet(id, confirmed) ==
    IF ~confirmed
    THEN UNCHANGED vars
    ELSE /\ Cardinality(deleting) < MaxRequests
         /\ deleting' = deleting \cup {id}
         /\ UNCHANGED <<rawRows, session, config, savedSets, currentSetTitle, remote,
                        listing, saving, issued, onKeyEnv, parsing>>

\* .delete().eq('id', id)
withoutRow(table, id) == LET keep(r) == r.id # id IN SelectSeq(table, keep)

\* deleteStudySet after its await: with an error it alerts; without, the
\* row is gone and loadSavedSets is called.
deleteDone(id, ok) ==
    /\ id \in deleting
    /\ deleting' = deleting \ {id}
    /\ IF ok
       THEN /\ listing < MaxListing
            /\ remote' = withoutRow(remote, id)
            /\ listing' = listing + 1
       ELSE UNCHANGED <<remote, listing>>
    /\ UNCHANGED <<rawRows, session, config, savedSets, currentSetTitle, saving,
                   issued, onKeyEnv, parsing>>

----------------------------------------------------------------------------
\* Header and settings

\* The reset button: resetSession(rawRows.length).
resetClick ==
    /\ resetSession(Len(rawRows), shuffle)
    /\ UNCHANGED <<rawRows, config, gateway, parsing>>
    /\ Render(TRUE)

\* The shuffle switch of the settings panel: onCheckedChange={setShuffle}.
\* The one of the study area: (v) => {setShuffle(v); resetSession(...)},
\* whose resetSession reads the shuffle of the render that is on screen.
toggleShuffle(where) ==
    /\ Len(rawRows) > 0
    /\ shuffle' = ~shuffle
    /\ IF where = "session"
       THEN StudyArea /\ resetSession(Len(rawRows), shuffle)
       ELSE UNCHANGED session
    /\ UNCHANGED <<rawRows, reverse, autoRepeatUnknown, dark, gateway, parsing>>
    /\ Render(where = "session")

toggleRepeat ==
    /\ Len(rawRows) > 0
    /\ autoRepeatUnknown' = ~autoRepeatUnknown
    /\ UNCHANGED <<rawRows, session, shuffle, reverse, dark, gateway, parsing, onKeyEnv>>

toggleReverse ==
    /\ Len(rawRows) > 0
    /\ reverse' = ~reverse
    /\ UNCHANGED <<rawRows, session, shuffle, autoRepeatUnknown, dark, gateway, parsing, onKeyEnv>>

\* The theme switch of the header: onCheckedChange={setDark}.
toggleDark ==
    /\ dark' = ~dark
    /\ UNCHANGED <<rawRows, session, shuffle, reverse, autoRepeatUnknown, gateway,
                   parsing, onKeyEnv>>

\* A start button rendered without a deck.
startSessionAlways ==
    /\ ~started
    /\ started' = TRUE
    /\ UNCHANGED <<rawRows, queue, idx, flipped, known, unknown, config, gateway, parsing>>
    /\ Render(FALSE)

startSession ==
    /\ Len(rawRows) > 0
    /\ ~started
    /\ started' = TRUE
    /\ UNCHANGED <<rawRows, queue, idx, flipped, known, unknown, config, gateway, parsing>>
    /\ Render(FALSE)

----------------------------------------------------------------------------
\* Study area and keyboard

\* next() without its test of the last position.
nextBodyUnguarded == idx' = idx + 1 /\ flipped' = FALSE

\* A next() that calls setFlipped(false) outside its test.
nextBodyAlwaysUnflips ==
    /\ idx' = IF idx < Len(queue) - 1 THEN idx + 1 ELSE idx
    /\ flipped' = FALSE

\* A next() that goes round to the first slot from the last.
nextBodyWraps ==
    IF idx < Len(queue) - 1
    THEN idx' = idx + 1 /\ flipped' = FALSE
    ELSE idx' = 0 /\ flipped' = FALSE

\* if (idx < queue.length - 1) { setIdx(i => i + 1); setFlipped(false); }
\* idx and queue are the closure's, which every render refreshes.
nextBody ==
    IF idx < Len(queue) - 1
    THEN idx' = idx + 1 /\ flipped' = FALSE
    ELSE UNCHANGED <<idx, flipped>>

\* A prev() that forgets setFlipped(false).
prevBodyKeepsFlip ==
    IF idx > 0
    THEN idx' = idx - 1 /\ flipped' = flipped
    ELSE UNCHANGED <<idx, flipped>>

\* if (idx > 0) { setIdx(i => i - 1); setFlipped(false); }
prevBody ==
    IF idx > 0
    THEN idx' = idx - 1 /\ flipped' = FALSE
    ELSE UNCHANGED <<idx, flipped>>

\* A markKnown that calls setFlipped(false) itself.
markKnownBodyUnflips(env) ==
    LET i == currentIndex IN
    IF i < 0 THEN UNCHANGED <<known, unknown, idx, flipped>>
    ELSE /\ known' = IF ~Includes(env.known, i) THEN Append(known, i) ELSE known
         /\ unknown' = IF env.autoRepeatUnknown THEN Filter(unknown, i) ELSE unknown
         /\ idx' = IF idx < Len(queue) - 1 THEN idx + 1 ELSE idx
         /\ flipped' = FALSE

markKnownBody(env) ==
    LET i == currentIndex IN
    IF i < 0 THEN UNCHANGED <<known, unknown, idx, flipped>>
    ELSE /\ known' = IF ~Includes(env.known, i) THEN Append(known, i) ELSE known
         /\ unknown' = IF env.autoRepeatUnknown THEN Filter(unknown, i) ELSE unknown
         /\ nextBody

markUnknownBody(env) ==
    LET i == currentIndex IN
    IF i < 0 THEN UNCHANGED <<queue, known, unknown, idx, flipped>>
    ELSE /\ unknown' = IF ~Includes(env.unknown, i) THEN Append(unknown, i) ELSE unknown
         /\ IF env.autoRepeatUnknown
            THEN \E j \in Jitter : queue' = Splice(queue, insertAt(queue, idx, j), i)
            ELSE UNCHANGED queue
         /\ nextBody
         /\ UNCHANGED known

\* The model explores sessions with at most MaxMarks classification entries
\* and re-inserted queue slots together (ScenarioMarks on the scenario's
\* deck, SpacedMarks on the decks of SpacedN records and more).
Bounded ==
    Len(known') + Len(unknown') + (Len(queue') - Len(rawRows))
        <= IF Len(rawRows) = ScenarioN THEN ScenarioMarks
           ELSE IF Len(rawRows) >= SpacedN THEN SpacedMarks
           ELSE MaxMarks

\* An onKey without its first line.
InertNever(src) == FALSE

\* A keydown reaches onKey whatever the state, and onKey returns at once
\* unless started; a click needs its button rendered and enabled.
Inert(src) == src = "key" /\ ~started

rest == <<rawRows, started, config, gateway, parsing>>

\* setFlipped(true) in place of the inversion.
toggleFlipShows ==
    /\ flipped' = TRUE
    /\ UNCHANGED <<queue, idx, known, unknown, onKeyEnv, rest>>

\* setFlipped(f => !f)
toggleFlipOn ==
    /\ flipped' = ~flipped
    /\ UNCHANGED <<queue, idx, known, unknown, onKeyEnv, rest>>

nextOn ==
    /\ nextBody
    /\ UNCHANGED <<queue, known, unknown, rest>>
    /\ Render(FALSE)

prevOn ==
    /\ prevBody
    /\ UNCHANGED <<queue, known, unknown, rest>>
    /\ Render(FALSE)

\* markKnown() of a render whose known, unknown, autoRepeatUnknown are env's.
markKnownOn(env) ==
    /\ markKnownBody(env)
    /\ UNCHANGED <<queue, rest>>
    /\ Bounded
    /\ Render(FALSE)

\* markUnknown() of such a render; setQueue runs when it re-inserts.
markUnknownOn(env) ==
    /\ markUnknownBody(env)
    /\ UNCHANGED rest
    /\ Bounded
    /\ Render(currentIndex >= 0 /\ env.autoRepeatUnknown)

toggleFlip(src) ==
    /\ src = "click" => StudyArea
    /\ IF Inert(src) THEN UNCHANGED vars ELSE toggleFlipOn

next(src) ==
    /\ src = "click" => StudyArea /\ ~(idx >= Len(queue) - 1)
    /\ IF Inert(src) THEN UNCHANGED vars ELSE nextOn

prev(src) ==
    /\ src = "click" => StudyArea /\ ~(idx = 0)
    /\ IF Inert(src) THEN UNCHANGED vars ELSE prevOn

markKnown(src) ==
    /\ src = "click" => StudyArea
    /\ IF Inert(src) THEN UNCHANGED vars ELSE markKnownOn(Env(src))

markUnknown(src) ==
    /\ src = "click" => StudyArea
    /\ IF Inert(src) THEN UNCHANGED vars ELSE markUnknownOn(Env(src))

Next ==
    \/ \E f \in Files : handleFiles(f)
    \/ \E p \in parsing : parseComplete(p)
    \/ \E p \in parsing : parseError(p)
    \/ \E ok \in BOOLEAN : loadSavedSets(ok)
    \/ \E k \in 1..Len(savedSets) : loadStudySet(savedSets[k])
    \/ resetClick
    \/ \E where \in {"panel", "session"} : toggleShuffle(where)
    \/ toggleRepeat
    \/ toggleReverse
    \/ startSession
    \/ \E src \in Sources : toggleFlip(src)
    \/ \E src \in Sources : next(src)
    \/ \E src \in Sources : prev(src)
    \/ \E src \in Sources : markKnown(src)
    \/ \E src \in Sources : markUnknown(src)

Spec == Init /\ [][Next]_vars

\* The end-to-end scenario: the operations it uses, on its file.
NextScenario ==
    \/ handleFiles("scenario")
    \/ \E p \in parsing : parseComplete(p)
    \/ \E where \in {"panel", "session"} : toggleShuffle(where)
    \/ resetClick
    \/ startSession
    \/ markUnknown("click")
    \/ markKnown("click")
    \/ \E src \in Sources : next(src)

SpecScenario == Init /\ [][NextScenario]_vars

\* Sessions on long decks: a deck of n records imported while the list of
\* saved sets could not be fetched, shuffle switched off, reset and started
\* (for n = 0 there is nothing to start).
QueueLengths == {0, 1, 2, 3, 40, MaxQueue - 1, MaxQueue}

InitProgress ==
    \E n \in QueueLengths :
        /\ rawRows = [i \in 1..n |-> [q |-> <<"x">>, a |-> <<"y">>]]
        /\ queue = Identity(n)
        /\ idx = 0
        /\ flipped = FALSE
        /\ known = <<>>
        /\ unknown = <<>>
        /\ started = (n > 0)
        /\ shuffle = FALSE
        /\ reverse = FALSE
        /\ autoRepeatUnknown = TRUE
        /\ dark = TRUE
        /\ savedSets = <<>>
        /\ currentSetTitle = ""
        /\ onKeyEnv = [known |-> <<>>, unknown |-> <<>>, autoRepeatUnknown |-> TRUE]
        /\ parsing = {}
        /\ remote = <<StoredSet>>
        /\ listing = 0
        /\ saving = {}
        /\ deleting = {}
        /\ issued = 1

NextProgress ==
    \/ \E src \in Sources : next(src)
    \/ \E src \in Sources : prev(src)
    \/ \E src \in Sources : toggleFlip(src)

SpecProgress == InitProgress /\ [][NextProgress]_vars

\* The persistence gateway in full, with the import and the loads that
\* make decks and a session that has something to lose.
NextGateway ==
    \/ handleFiles("named")
    \/ \E p \in parsing : parseComplete(p)
    \/ \E ok \in BOOLEAN : loadSavedSets(ok)
    \/ \E k \in 1..Len(savedSets) : loadStudySet(savedSets[k])
    \/ startSession
    \/ markKnown("click")
    \/ \E t \in Titles : setTitle(t)
    \/ saveStudySet
    \/ \E s \in saving, ok \in BOOLEAN : saveDone(s, ok)
    \/ \E k \in 1..Len(savedSets), confirmed \in BOOLEAN :
            deleteStudySet(savedSets[k].id, confirmed)
    \/ \E id \in deleting, ok \in BOOLEAN : deleteDone(id, ok)

SpecGateway == Init /\ [][NextGateway]_vars

\* Overlapping imports of files of different lengths, over a session.
RaceFiles == {"named", "blank", "scenario"}

NextRace ==
    \/ \E f \in RaceFiles : handleFilesPending(f)
    \/ \E p \in parsing : parseComplete(p)
    \/ \E p \in parsing : parseError(p)
    \/ startSession
    \/ markUnknown("click")
    \/ \E src \in Sources : next(src)

SpecRace == Init /\ [][NextRace]_vars

\* The same program with the theme switch in reach.
NextTheme == Next \/ toggleDark

SpecTheme == Init /\ [][NextTheme]_vars

\* Sessions on decks long enough for a re-insertion to land inside the
\* queue (the gap is ten slots at least): a deck of n records imported
\* while the list of saved sets could not be fetched, shuffle switched off,
\* reset and started.
SpacedLengths == {SpacedN, SpacedN + 4}

InitSpaced ==
    \E n \in SpacedLengths :
        /\ rawRows = [i \in 1..n |-> [q |-> <<"x">>, a |-> <<"y">>]]
        /\ queue = Identity(n)
        /\ idx = 0
        /\ flipped = FALSE
        /\ known = <<>>
        /\ unknown = <<>>
        /\ started = TRUE
        /\ shuffle = FALSE
        /\ reverse = FALSE
        /\ autoRepeatUnknown = TRUE
        /\ dark = TRUE
        /\ savedSets = <<>>
        /\ currentSetTitle = ""
        /\ onKeyEnv = [known |-> <<>>, unknown |-> <<>>, autoRepeatUnknown |-> TRUE]
        /\ parsing = {}
        /\ remote = <<StoredSet>>
        /\ listing = 0
        /\ saving = {}
        /\ deleting = {}
        /\ issued = 1

NextSpaced ==
    \/ \E src \in Sources : next(src)
    \/ \E src \in Sources : prev(src)
    \/ \E src \in Sources : markUnknown(src)

SpecSpaced == InitSpaced /\ [][NextSpaced]_vars

\* A study session from import to the end of the queue, under a user who
\* does not leave a forward step undone for ever: next() and markKnown()
\* are issued again and again as long as they have an effect.
Forward == \E src \in Sources : next(src) \/ markKnown(src)

ForwardFiles == {"named", "scenario"}

NextForward ==
    \/ \E f \in ForwardFiles : handleFiles(f)
    \/ \E p \in parsing : parseComplete(p)
    \/ resetClick
    \/ startSession
    \/ \E src \in Sources : toggleFlip(src)
    \/ \E src \in Sources : next(src)
    \/ \E src \in Sources : prev(src)
    \/ \E src \in Sources : markKnown(src)
    \/ \E src \in Sources : markUnknown(src)

SpecForward == Init /\ [][NextForward]_vars /\ WF_vars(Forward)

----------------------------------------------------------------------------
\* Vocabulary of the properties

\* q holds each of 0..n-1 exactly once.
IsPermutation(q, n) ==
    /\ Len(q) = n
    /\ \A v \in 0..(n - 1) : Cardinality({k \in 1..n : q[k] = v}) = 1

NoDuplicates(s) == \A i, j \in 1..Len(s) : s[i] = s[j] => i = j

\* A parse completion that delivers records (not one that re-parses).
Delivers(p) == ~(p.header /\ allEmpty(HeaderParse(p.file)))

\* A step in which resetSession ran.
ResetStep ==
    \/ resetClick
    \/ toggleShuffle("session")
    \/ \E k \in 1..Len(savedSets) : loadStudySet(savedSets[k])
    \/ \E p \in parsing : Delivers(p) /\ parseComplete(p)

\* A step that replaced the deck.
DeckStep ==
    \/ \E k \in 1..Len(savedSets) : loadStudySet(savedSets[k])
    \/ \E p \in parsing : Delivers(p) /\ parseComplete(p)

SessionIsReset ==
    /\ idx' = 0
    /\ flipped' = FALSE
    /\ known' = <<>>
    /\ unknown' = <<>>
    /\ started' = FALSE
    /\ IsPermutation(queue', Len(rawRows'))

\* A markKnown / markUnknown that found a current card, from either source.
MarksKnown == started /\ currentIndex >= 0 /\ \E src \in Sources : markKnown(src)

MarksUnknown == started /\ currentIndex >= 0 /\ \E src \in Sources : markUnknown(src)

----------------------------------------------------------------------------
\* C1: every session reset, with shuffle on or off and for every deck
\* length, leaves a queue that holds each index 0..n-1 exactly once.
C1_ResetBuildsPermutation ==
    [][ResetStep => IsPermutation(queue', Len(rawRows'))]_vars

\* A reset has shuffled a deck of two records into the order 1, 0.
C1_Witness ==
    /\ Len(rawRows) = 2
    /\ queue = <<1, 0>>
    /\ idx = 0
    /\ ~started

\* C2: whenever a session reset completes while shuffle is off (after an
\* import, a load, the reset button or the study-area shuffle switch), the
\* queue is the identity order.
C2_IdentityWhenShuffleOff ==
    [][ResetStep /\ ~shuffle' => queue' = Identity(Len(rawRows'))]_vars

\* C3: every toggle of shuffle, from either switch, resets the session.
C3_ShuffleToggleResets ==
    [][shuffle' # shuffle => SessionIsReset]_vars

\* C4: known and unknown never hold an index twice.
C4_NoDuplicateMarks == NoDuplicates(known) /\ NoDuplicates(unknown)

\* C5: while started, an operation triggered by its key leads to a state
\* the same operation triggered by its button leads to from the same state.
C5_KeyActsOnCurrentState ==
    [][started =>
            /\ toggleFlip("key") => toggleFlipOn
            /\ next("key") => nextOn
            /\ prev("key") => prevOn
            /\ markKnown("key") => markKnownOn(RenderEnv)
            /\ markUnknown("key") => markUnknownOn(RenderEnv)]_vars

\* C6: markUnknown while autoRepeatUnknown is on and a current card exists
\* makes the queue one longer by inserting the current card's index at
\* min(|queue|, idx + max(10, floor(0.3 * |queue|)) + j) for a j of 0..4;
\* from |queue| = 20 and idx = 0 that position is within 10..14.
C6_ReinsertionPosition ==
    [][MarksUnknown /\ autoRepeatUnknown =>
            \E j \in 0..4 :
                LET n == Len(queue)
                    gap == IF (3 * n) \div 10 > 10 THEN (3 * n) \div 10 ELSE 10
                    at == IF idx + gap + j < n THEN idx + gap + j ELSE n
                IN  /\ Len(queue') = n + 1
                    /\ queue'[at + 1] = queue[idx + 1]
                    /\ \A k \in 1..at : queue'[k] = queue[k]
                    /\ \A k \in (at + 1)..n : queue'[k + 1] = queue[k]
                    /\ (n = 20 /\ idx = 0 => at \in 10..14)]_vars

\* C7: markUnknown while autoRepeatUnknown is on and a current card exists
\* always advances the cursor by one, also from the last position, where
\* the slot it has just inserted is the one to advance to.
C7_MarkUnknownAdvances ==
    [][MarksUnknown /\ autoRepeatUnknown => idx' = idx + 1]_vars

\* C8: after markKnown on index i while autoRepeatUnknown is on, i is in
\* known and not in unknown.
C8_KnownCancelsUnknown ==
    [][MarksKnown /\ autoRepeatUnknown =>
            /\ Includes(known', currentIndex)
            /\ ~Includes(unknown', currentIndex)]_vars

\* C9: with a non-empty queue the cursor is a valid position of it:
\* 0 <= idx <= |queue| - 1, and idx = |queue| is never reached.
C9_CursorInQueue ==
    /\ idx >= 0
    /\ Len(queue) > 0 => idx <= Len(queue) - 1

\* The cursor stands on the last slot of a queue that a re-insertion has
\* made longer than the deck.
C9_Witness ==
    /\ started
    /\ Len(queue) > Len(rawRows)
    /\ idx = Len(queue) - 1

\* C10: every queue element is an index of the current deck, and a step
\* that replaces the deck resets the whole session with it.
C10_QueueIndexesDeck ==
    /\ [](\A k \in 1..Len(queue) : queue[k] >= 0 /\ queue[k] < Len(rawRows))
    /\ [][DeckStep => SessionIsReset]_vars

\* An import has replaced a loaded deck by an empty one.
C10_Witness ==
    /\ currentSetTitle = "t"
    /\ rawRows = <<>>
    /\ queue = <<>>

\* C11: a step in which resetSession runs ends with idx = 0, flipped = false,
\* known and unknown empty and started = false, and leaves reverse,
\* autoRepeatUnknown and the theme as they were; shuffle changes in such a
\* step only by the setShuffle of the study-area switch, never by
\* resetSession.
C11_ResetFrame ==
    [][ResetStep =>
            /\ idx' = 0
            /\ flipped' = FALSE
            /\ known' = <<>>
            /\ unknown' = <<>>
            /\ started' = FALSE
            /\ reverse' = reverse
            /\ autoRepeatUnknown' = autoRepeatUnknown
            /\ dark' = dark
            /\ (shuffle' # shuffle => toggleShuffle("session"))]_vars

\* The deck on screen is empty, which only an import makes it, while the
\* switches that need a deck to be reachable are off their defaults: the
\* import's reset came after them and kept them.
C11_Witness ==
    /\ rawRows = <<>>
    /\ currentSetTitle = "t"
    /\ ~started
    /\ ~shuffle
    /\ reverse
    /\ ~autoRepeatUnknown
    /\ ~dark

\* next() / prev() / the flip ran: a click on the enabled button, or the key
\* while started.
NextRan == \E src \in Sources : ~Inert(src) /\ next(src)

PrevRan == \E src \in Sources : ~Inert(src) /\ prev(src)

FlipRan == \E src \in Sources : ~Inert(src) /\ toggleFlip(src)

\* C12: next() below the last position adds one to idx and clears flipped,
\* prev() above the first position takes one from idx and clears flipped;
\* both leave queue, known, unknown, started and the configuration alone.
C12_NavigationMoves ==
    [][/\ NextRan /\ idx < Len(queue) - 1 =>
            /\ idx' = idx + 1
            /\ flipped' = FALSE
            /\ UNCHANGED <<queue, known, unknown, started, config>>
       /\ PrevRan /\ idx > 0 =>
            /\ idx' = idx - 1
            /\ flipped' = FALSE
            /\ UNCHANGED <<queue, known, unknown, started, config>>]_vars

\* The cursor stands on the second slot with nothing classified, where only
\* next() can have put it, and prev() can run.
C12_Witness ==
    /\ started
    /\ idx = 1
    /\ Len(queue) = 2
    /\ known = <<>>
    /\ unknown = <<>>
    /\ ~flipped

\* C13: next() at the last position and prev() at the first leave the
\* whole session as it is, flipped included.
C13_NavigationNoOp ==
    [][\/ NextRan /\ idx = Len(queue) - 1
       \/ PrevRan /\ idx = 0
       => UNCHANGED <<queue, idx, flipped, known, unknown, started>>]_vars

\* A started session shows the answer of the only slot of its queue: the
\* first position is the last, and flipped has something to lose.
C13_Witness ==
    /\ started
    /\ flipped
    /\ Len(queue) = 1
    /\ idx = 0

\* C14: the flip, by Space or by its button, inverts flipped and leaves idx,
\* queue, known, unknown and started alone.  It changes the state wherever
\* it can run and flipped is a boolean, so a second flip gives the first
\* value back.
C14_FlipInverts ==
    /\ [](flipped \in BOOLEAN)
    /\ [](started => ENABLED <<toggleFlip("key")>>_vars)
    /\ [](StudyArea => ENABLED <<toggleFlip("click")>>_vars)
    /\ [][FlipRan =>
            /\ flipped' = ~flipped
            /\ UNCHANGED <<idx, queue, known, unknown, started>>]_vars

\* The answer side is up in a started session.
C14_Witness ==
    /\ started
    /\ flipped
    /\ Len(queue) = 2
    /\ idx = 1

\* A keydown of one of the five keys.
KeyDown ==
    \/ toggleFlip("key")
    \/ next("key")
    \/ prev("key")
    \/ markKnown("key")
    \/ markUnknown("key")

\* C15: while started is false no keydown changes queue, idx, flipped,
\* known or unknown, in the first render as after every reset, import or
\* load.
C15_KeysInertUntilStarted ==
    [][~started /\ KeyDown => UNCHANGED <<queue, idx, flipped, known, unknown>>]_vars

\* A loaded deck has been replaced by an imported one of two records that
\* waits for its start: the keys have a queue to act on and must not.
C15_Witness ==
    /\ ~started
    /\ currentSetTitle = "t"
    /\ Len(rawRows) = 2
    /\ Len(queue) = 2

\* The states of the scenario: the deck of ScenarioN records in file order,
\* started, before the first answer, after markUnknown, after markKnown.
ScenarioDeck ==
    /\ started
    /\ Len(rawRows) = ScenarioN
    /\ SubSeq(queue, 1, ScenarioN) = Identity(ScenarioN)

ScenarioStart == ScenarioDeck /\ idx = 0 /\ known = <<>> /\ unknown = <<>>

ScenarioAfterUnknown == ScenarioDeck /\ idx = 1 /\ known = <<>> /\ unknown = <<0>>

ScenarioAfterKnown == ScenarioDeck /\ idx = 2 /\ known = <<1>> /\ unknown = <<0>>

\* C16: an import of 3 records while shuffle is off leaves record 0 as the
\* card start() shows; from there markUnknown gives known = {}, unknown =
\* {0}, idx = 1 on record 1; markKnown gives known = {1}, idx = 2 on record
\* 2; and there idx = 2 is the last position and next() leaves it at 2.
C16_EndToEndScenario ==
    /\ [][(\E p \in parsing : Delivers(p) /\ parseComplete(p)) /\ ~shuffle
            /\ Len(rawRows') = ScenarioN
            => idx' = 0 /\ queue'[1] = 0]_vars
    /\ [][startSession => currentIndex' = currentIndex]_vars
    /\ [][ScenarioStart /\ markUnknown("click")
            => known' = <<>> /\ unknown' = <<0>> /\ idx' = 1 /\ currentIndex' = 1]_vars
    /\ [][ScenarioAfterUnknown /\ markKnown("click")
            => known' = <<1>> /\ idx' = 2 /\ currentIndex' = 2]_vars
    /\ [](ScenarioAfterKnown => idx = Len(queue) - 1)
    /\ [][ScenarioAfterKnown /\ NextRan => idx' = 2]_vars

\* C17: the progress value is within 0..99 whenever the cursor is inside
\* the queue, for every queue length, and is 0 for the empty queue.
C17_ProgressBelow100 ==
    /\ idx < Len(queue) => progress \in 0..99
    /\ Len(queue) = 0 => progress = 0

\* C19: a toggle of autoRepeatUnknown or of reverse leaves queue, idx,
\* flipped, known, unknown and started alone, and every markKnown and
\* markUnknown, by click or by key, the first one after a toggle included,
\* follows the value autoRepeatUnknown has when it is issued: markUnknown
\* re-inserts exactly when it is on, markKnown takes the index out of
\* unknown exactly when it is on.
C19_TogglesTakeEffect ==
    /\ [][toggleRepeat \/ toggleReverse
            => UNCHANGED <<queue, idx, flipped, known, unknown, started>>]_vars
    /\ [][MarksUnknown =>
            IF autoRepeatUnknown
            THEN Len(queue') = Len(queue) + 1
            ELSE queue' = queue]_vars
    /\ [][MarksKnown =>
            IF autoRepeatUnknown
            THEN unknown' = Filter(unknown, currentIndex)
            ELSE unknown' = unknown]_vars

\* C20: the queue is changed only by a session reset and by a markUnknown
\* issued while autoRepeatUnknown is on; next, prev, the flip, start,
\* markKnown, markUnknown with repeat off and the toggles of repeat and
\* reverse leave it as it is.
C20_QueueFrame ==
    [][queue' # queue => ResetStep \/ (MarksUnknown /\ autoRepeatUnknown)]_vars

\* C21: outside a session reset the queue never gets shorter, and in every
\* reachable state each index 0..N-1 of the deck occurs in the queue.
C21_QueueCoversDeck ==
    /\ [](\A v \in 0..(Len(rawRows) - 1) : Includes(queue, v))
    /\ [][~ResetStep => Len(queue') >= Len(queue)]_vars

\* A re-insertion has made the queue of a deck of two records three long,
\* and the cursor has gone back to the first slot.
C21_Witness ==
    /\ started
    /\ Len(rawRows) = 2
    /\ Len(queue) = 3
    /\ idx = 0

\* The title is empty once trimmed.
BlankTitle == trim(TitleText(currentSetTitle)) = <<>>

\* C23: while the title is blank or the deck empty no insert request is
\* sent, and a save asked for then changes nothing at all.
C23_SaveRefused ==
    /\ [][BlankTitle \/ rawRows = <<>> => saving' \subseteq saving]_vars
    /\ [][saveStudySet /\ (BlankTitle \/ rawRows = <<>>) => UNCHANGED vars]_vars

\* A started session on a deck whose title field holds one blank, and no
\* insert in flight.
C23_Witness ==
    /\ currentSetTitle = " "
    /\ Len(rawRows) > 0
    /\ started
    /\ Len(known) > 0
    /\ saving = {}

\* An insert, a select or a delete has answered with an error.
RemoteFailure ==
    \/ \E s \in saving : saveDone(s, FALSE)
    \/ \E id \in deleting : deleteDone(id, FALSE)
    \/ loadSavedSets(FALSE)

\* C24: a failed insert, select or delete leaves the deck, the session and
\* the list of saved sets as they were and sends no request.
C24_RemoteFailureKeepsState ==
    [][RemoteFailure =>
            /\ UNCHANGED <<rawRows, queue, idx, flipped, known, unknown, started>>
            /\ savedSets' = savedSets
            /\ listing' <= listing
            /\ saving' \subseteq saving
            /\ deleting' \subseteq deleting]_vars

\* No select is in flight, none of the inserts has succeeded, the table
\* holds a row and the list is empty: the select of the mount has failed.
C24_Witness ==
    /\ listing = 0
    /\ issued = 1
    /\ remote # <<>>
    /\ savedSets = <<>>
    /\ Len(rawRows) > 0

\* The deck an entry was saved from: the inverse of the field mapping.
deckOf(entry) ==
    [i \in 1..Len(entry.questions) |->
        [q |-> entry.questions[i].question, a |-> entry.questions[i].answer]]

\* C26: loading an entry that a save of this run has written gives back
\* the deck it was saved from, record for record in the same order, and
\* resets the session for that deck.
C26_LoadInvertsSave ==
    [][\A k \in 1..Len(savedSets) :
            savedSets[k].id > 1 /\ loadStudySet(savedSets[k])
            => rawRows' = deckOf(savedSets[k]) /\ SessionIsReset]_vars

\* C28: a delete request is sent only by a confirmed deleteStudySet, a
\* declined one changes nothing, and a row leaves the table only by a
\* delete request that was sent.
C28_DeleteNeedsConfirmation ==
    /\ [][~(deleting' \subseteq deleting)
            => \E k \in 1..Len(savedSets) : deleteStudySet(savedSets[k].id, TRUE)]_vars
    /\ [][(\E k \in 1..Len(savedSets) : deleteStudySet(savedSets[k].id, FALSE))
            => UNCHANGED vars]_vars
    /\ [][Len(remote') < Len(remote) => \E id \in deleting : deleteDone(id, TRUE)]_vars

\* A confirmed delete of a listed set is in flight.
C28_Witness ==
    /\ deleting # {}
    /\ savedSets # <<>>

\* What the completion of p hands to normalizeRecords.
Delivered(p) == IF p.header THEN HeaderParse(p.file) ELSE PlainParse(p.file)

\* C22: with imports pending together, each completion that delivers
\* records leaves the deck of its own file and a session reset for that
\* deck (a permutation of its indices, idx = 0, nothing classified, not
\* started), so the deck and the queue after both are those of the
\* completion that fired last.
C22_LastCompletionWins ==
    [][\A p \in parsing :
            Delivers(p) /\ parseComplete(p)
            => rawRows' = normalizeRecords(Delivered(p)) /\ SessionIsReset]_vars

\* The import of the long file has completed and a session runs on it
\* while two more parses are pending, one of them the second parse of the
\* file without header.
C22_Witness ==
    /\ Len(rawRows) = ScenarioN
    /\ started
    /\ Cardinality(parsing) = 2
    /\ \E p \in parsing : ~p.header

\* C25: a parse that ends in an error leaves the deck and the session as
\* they are.
C25_ParseErrorKeepsState ==
    [][(\E p \in parsing : parseError(p))
            => UNCHANGED <<rawRows, queue, idx, flipped, known, unknown, started>>]_vars

\* A parse is pending over a started session that has a card classified
\* and its answer up: an error has all of that to keep.
C25_Witness ==
    /\ started
    /\ flipped
    /\ Len(known) + Len(unknown) > 0
    /\ \E p \in parsing : p.header

\* C27: the deck changes only in a completion of an import that delivers
\* records and in a load; the card on screen is the record at queue[idx],
\* with its sides exchanged exactly when reverse is on, and a toggle of
\* reverse exchanges the sides of the card and leaves the deck alone, so a
\* second toggle shows the first card again.
C27_DeckFrame ==
    /\ [][rawRows' # rawRows => DeckStep]_vars
    /\ [](currentIndex >= 0 =>
            LET r == rawRows[queue[idx + 1] + 1]
            IN  /\ currentCard.q = IF reverse THEN r.a ELSE r.q
                /\ currentCard.a = IF reverse THEN r.q ELSE r.a)
    /\ [][toggleReverse /\ currentIndex >= 0 =>
            /\ rawRows' = rawRows
            /\ currentCard'.q = currentCard.a
            /\ currentCard'.a = currentCard.q]_vars

\* A started session shows its card reversed: the question side holds the
\* answer text of the record.
C27_Witness ==
    /\ started
    /\ reverse
    /\ currentIndex >= 0
    /\ currentCard.a = <<"x">>
    /\ rawRows[currentIndex + 1].q = <<"x">>

\* next, prev, markKnown or markUnknown ran.
MoveRan ==
    \/ NextRan
    \/ PrevRan
    \/ \E src \in Sources : ~Inert(src) /\ markKnown(src)
    \/ \E src \in Sources : ~Inert(src) /\ markUnknown(src)

\* C29: next, prev, markKnown and markUnknown set flipped to false when
\* they change idx and leave flipped as it is when they do not.
C29_FlipResetsWithCursor ==
    [][MoveRan =>
            /\ idx' # idx => flipped' = FALSE
            /\ idx' = idx => flipped' = flipped]_vars

\* The answer is up on the last slot, whose card is already in known: a
\* markKnown there does not advance.
C29_Witness ==
    /\ started
    /\ flipped
    /\ idx = Len(queue) - 1
    /\ Includes(known, currentIndex)

\* C30: started implies a non-empty deck and a current card, which is a
\* record of the deck; every step that changes the deck ends with started
\* = false.
C30_StartedHasCard ==
    /\ [](started =>
            /\ Len(rawRows) > 0
            /\ Len(queue) > 0
            /\ idx < Len(queue)
            /\ currentIndex \in 0..(Len(rawRows) - 1))
    /\ [][rawRows' # rawRows => ~started']_vars

\* A session has been started on an imported deck that took the place of
\* a loaded one.
C30_Witness ==
    /\ started
    /\ currentSetTitle = "t"
    /\ Len(rawRows) = 2
    /\ idx = 0
    /\ known = <<>>
    /\ unknown = <<>>

\* C31: markUnknown leaves the slots 0..idx of the queue as they were, for
\* every queue length and cursor position; when it changes the queue, the
\* one slot it adds holds the current card's index and stands strictly
\* behind the cursor, the slots behind it moved up by one.
C31_ReinsertionBehindCursor ==
    [][MarksUnknown =>
            /\ SubSeq(queue', 1, idx + 1) = SubSeq(queue, 1, idx + 1)
            /\ queue' # queue =>
                    \E at \in (idx + 1)..Len(queue) :
                        /\ Len(queue') = Len(queue) + 1
                        /\ \A k \in 1..at : queue'[k] = queue[k]
                        /\ queue'[at + 1] = queue[idx + 1]
                        /\ \A k \in (at + 1)..Len(queue) : queue'[k + 1] = queue[k]]_vars

\* The first card was marked unknown on a long deck: its second slot stands
\* inside the queue, behind the cursor and before the last slot.
C31_Witness ==
    /\ started
    /\ Len(rawRows) >= SpacedN
    /\ Len(queue) = Len(rawRows) + 1
    /\ idx = 1
    /\ unknown = <<0>>
    /\ queue[1] = 0
    /\ \E k \in (idx + 2)..(Len(queue) - 1) : queue[k] = 0

\* C32: while autoRepeatUnknown is on, a markUnknown below the last position
\* makes the queue one longer and leaves the number of remaining cards,
\* Len(queue) - 1 - idx, as it was, so that the cursor is again below the
\* last position and a run of such steps never reaches it.
C32_RemainingUnchanged ==
    [][MarksUnknown /\ autoRepeatUnknown /\ idx < Len(queue) - 1 =>
            /\ Len(queue') = Len(queue) + 1
            /\ Len(queue') - 1 - idx' = Len(queue) - 1 - idx
            /\ idx' < Len(queue') - 1]_vars

\* A step that takes the cursor back or puts new slots before its goal:
\* markUnknown, prev, a reset, an import or a load.
Backward ==
    \/ \E src \in Sources : ~Inert(src) /\ markUnknown(src)
    \/ PrevRan
    \/ ResetStep

\* C33: if the session stays started and from some point on no markUnknown,
\* prev, reset, import or load takes place, while next() and markKnown()
\* keep being issued, then from some point on idx = Len(queue) - 1 for
\* ever.
C33_ForwardReachesEnd ==
    (<>[]started) /\ (<>[][~Backward]_vars) => <>[](idx = Len(queue) - 1)

\* Every card of a deck of two records and more was marked known in turn
\* and the cursor stands on the last slot.
C33_Witness ==
    /\ started
    /\ Len(queue) = Len(rawRows)
    /\ Len(queue) >= 2
    /\ idx = Len(queue) - 1
    /\ known = queue
    /\ unknown = <<>>

\* The indices an array of marks holds.
Members(s) == {s[k] : k \in 1..Len(s)}

\* C34, first part: a step that is not a session reset takes no index out
\* of known.
C34_KnownKeeps ==
    [][~ResetStep => Members(known) \subseteq Members(known')]_vars

\* C34, second part: a step that is not a session reset takes an index out
\* of unknown only if it is a markKnown of that index made while
\* autoRepeatUnknown is on.
C34_UnknownLosesByKnown ==
    [][~ResetStep /\ ~(Members(unknown) \subseteq Members(unknown')) =>
            /\ MarksKnown
            /\ autoRepeatUnknown
            /\ Members(unknown) \ Members(unknown') = {currentIndex}]_vars

\* C34, third part: markKnown and markUnknown change the membership of no
\* index but queue[idx], in known as in unknown.
C34_OneIndexPerMark ==
    [][MarksKnown \/ MarksUnknown =>
            \A v \in 0..(Len(rawRows) - 1) :
                v # currentIndex =>
                    /\ Includes(known', v) = Includes(known, v)
                    /\ Includes(unknown', v) = Includes(unknown, v)]_vars

\* C34: between two session resets known never loses an index, unknown
\* loses one only by markKnown of that index while autoRepeatUnknown is on,
\* and each markKnown or markUnknown changes the membership of the index
\* queue[idx] at most.
C34_MarksMonotone ==
    /\ C34_KnownKeeps
    /\ C34_UnknownLosesByKnown
    /\ C34_OneIndexPerMark

====
